---- MODULE Spec2Model ----
(***************************************************************************)
(* Blueprint (src/blueprint/__init__.py): the package tree of a blueprint, *)
(* its walk and the three-pass subtraction b = self - other.               *)
(*                                                                         *)
(* A document is a record                                                  *)
(*   keys : the top-level keys present in the dict,                        *)
(*   dd   : TRUE when the value under 'packages' is the defaultdict the    *)
(*          packages property creates, FALSE when it is a plain dict       *)
(*          (json.loads),                                                  *)
(*   pk   : manager name -> (package name -> sequence of versions).        *)
(***************************************************************************)
EXTENDS Integers, Sequences, FiniteSets, TLC

VARIABLES self, other, same, b, _managers, pc, stack, traces, err

\* History: the operands as they were when the operation was called, and the
\* copy b as each finished pass left it.
VARIABLES args, after

\* Serialization: the blueprint that is read, walked, dumped and loaded, a
\* blueprint created with the same content, and the texts dumps returned.
VARIABLES doc, twin, out

\* The Git repository: the branch of the blueprint's name and the commits it
\* was set to, the commit and tree objects, the index, the commit() call of
\* each process, and the files of the directories the calls are made in.
VARIABLES ref, reflog, commits, trees, index, procs, cwd

gitvars == <<ref, reflog, commits, trees, index, procs, cwd>>

storevars == <<doc, twin, out, gitvars>>

vars == <<self, other, same, b, _managers, pc, stack, traces, err, args, after,
          storevars>>

-----------------------------------------------------------------------------
(* Bounds of the model.                                                    *)

\* entries (manager, package) of the left operand / of a walked document
MaxEntries == 3
\* entries (manager, package) of the right operand of a subtraction
MaxOtherEntries == 2
\* versions recorded for one package
MaxVersions == 3
\* the interpreter's recursion limit, scaled down
RecursionLimit == 5

-----------------------------------------------------------------------------
(* Names.  Python compares str byte-wise; NameOrder lists the names of     *)
(* the model in that order.                                                *)

NameOrder ==
    <<"apt", "curl", "flask", "gem", "pip", "python3", "python3-dev",
      "ruby1.8", "rubygems1.8">>

Names == {NameOrder[i] : i \in 1..Len(NameOrder)}

Versions == {"1.0", "7.1"}

None == "None"

EmptyMap == [x \in {} |-> <<>>]

Put(f, k, v) == [x \in (DOMAIN f) \cup {k} |-> IF x = k THEN v ELSE f[x]]

Del(f, k) == [x \in (DOMAIN f) \ {k} |-> f[x]]

\* Blueprint(): an empty dict (line 83).
EmptyDocument == [keys |-> {}, dd |-> TRUE, pk |-> EmptyMap]

-----------------------------------------------------------------------------
(* Properties and item access.                                             *)

\* The packages property: reading it creates the key when it is missing.
Packages(d) ==
    IF "packages" \in d.keys THEN d
    ELSE [d EXCEPT !.keys = @ \cup {"packages"}, !.dd = TRUE, !.pk = EmptyMap]

\* d.packages[name] raises KeyError on a plain dict without the key.
GetItemRaises(d, name) == name \notin DOMAIN d.pk /\ ~d.dd

\* d.packages[name] on a defaultdict creates an empty table for a new key.
GetItem(d, name) ==
    IF name \in DOMAIN d.pk THEN d
    ELSE [d EXCEPT !.pk = Put(d.pk, name, EmptyMap)]

-----------------------------------------------------------------------------
(* walk: iteration order and the managers to recurse into.                 *)

SortedMutant(table) ==
    LET n == Len(NameOrder)
        rev == [i \in 1..n |-> NameOrder[n + 1 - i]]
    IN SelectSeq(rev, LAMBDA p : p \in DOMAIN table)

\* sorted(manager.iteritems()): the packages in ascending name order.
Sorted(table) == SelectSeq(NameOrder, LAMBDA p : p \in DOMAIN table)

RECURSIVE Flatten(_, _)
Flatten(table, ps) ==
    IF ps = <<>> THEN <<>>
    ELSE [i \in 1..Len(table[Head(ps)]) |->
             [package |-> Head(ps), version |-> table[Head(ps)][i]]]
         \o Flatten(table, Tail(ps))

\* The (package, version) pairs the package callback is called with.
Calls(table) == Flatten(table, Sorted(table))

ChildManagersMutant(d, managername, table) ==
    LET ms == SelectSeq(Sorted(table),
                        LAMBDA p : managername # p /\ p \in DOMAIN d.pk)
    IN IF ms = <<>> THEN ms ELSE <<Head(ms)>>

\* managers.append(package) for managername != package in self.packages.
ChildManagers(d, managername, table) ==
    SelectSeq(Sorted(table), LAMBDA p : managername # p /\ p \in DOMAIN d.pk)

\* The callbacks each walk is given.
Hooks(p) ==
    CASE p \in {"walk1", "walk2"} -> {"before", "package", "after"}
      [] p \in {"pass1", "pass2"} -> {"package"}
      [] p = "pass3" -> {"after"}
      [] OTHER -> {}

Walking == {"walk1", "walk2", "pass1", "pass2", "pass3"}

\* What follows the return of the top-level walk.
AfterWalk(p) ==
    CASE p = "walk1" -> "walk2"
      [] p = "walk2" -> "walked"
      [] p = "pass1" -> "pass2"
      [] p = "pass2" -> "pass3"
      [] OTHER -> "done"

\* Manager(managername, self.packages[managername]) and the frame of walk.
Frame(d, managername, hooks) ==
    LET table == d.pk[managername]
    IN [name |-> managername,
        table |-> table,
        i |-> 1,
        phase |-> IF "package" \in hooks /\ Calls(table) # <<>>
                  THEN "package" ELSE "after",
        managers |-> <<>>,
        k |-> 1]

Event(h, m, p, v) == [hook |-> h, manager |-> m, package |-> p, version |-> v]

Log(ts, hooks, e) ==
    IF e.hook \in hooks
    THEN [ts EXCEPT ![Len(ts)] = Append(ts[Len(ts)], e)]
    ELSE ts

-----------------------------------------------------------------------------
(* __sub__: the callbacks of the three passes.  Each returns the state it  *)
(* leaves: the copy b, self, self._managers and the exception raised.      *)

Result(bb, s, m, e) == [b |-> bb, self |-> s, managers |-> m, err |-> e]

RECURSIVE IndexOf(_, _, _)
\* b_versions.index(version): 0 stands for ValueError.
IndexOf(vs, version, i) ==
    IF i > Len(vs) THEN 0
    ELSE IF vs[i] = version THEN i
    ELSE IndexOf(vs, version, i + 1)

RemoveLastMutant(vs, version) ==
    LET at == {i \in DOMAIN vs : vs[i] = version}
    IN IF at = {} THEN vs
       ELSE LET i == CHOOSE k \in at : \A j \in at : j <= k
            IN [j \in 1..(Len(vs) - 1) |-> IF j < i THEN vs[j] ELSE vs[j + 1]]

\* del b_versions[b_versions.index(version)], ValueError passed over.
RemoveFirst(vs, version) ==
    LET i == IndexOf(vs, version, 1)
    IN IF i = 0 THEN vs
       ELSE [j \in 1..(Len(vs) - 1) |-> IF j < i THEN vs[j] ELSE vs[j + 1]]

\* The body of the package callback of pass 1 on the blueprint d.
Remove(d, manager, package, version) ==
    LET b1 == Packages(d)
    IN IF package \in DOMAIN b1.pk THEN [b |-> b1, err |-> ""]
       ELSE IF manager \in DOMAIN b1.pk /\ manager \in DOMAIN b1.pk[manager]
       THEN [b |-> b1, err |-> ""]
       ELSE IF GetItemRaises(b1, manager) THEN [b |-> b1, err |-> "KeyError"]
       ELSE LET b2 == GetItem(b1, manager)
                b_packages == b2.pk[manager]
            IN IF package \notin DOMAIN b_packages THEN [b |-> b2, err |-> ""]
               ELSE LET b_versions == RemoveFirst(b_packages[package], version)
                    IN IF 0 = Len(b_versions)
                       THEN [b |-> [b2 EXCEPT !.pk[manager] =
                                       Del(b_packages, package)],
                             err |-> ""]
                       ELSE [b |-> [b2 EXCEPT !.pk[manager][package] =
                                       b_versions],
                             err |-> ""]

Pass1PackageMutant(bb, s, m, manager, package, version) ==
    LET r == Remove(bb, manager, package, version)
        t == Remove(s, manager, package, version)
    IN Result(r.b, t.b, m, r.err)

\* Pass 1, package(manager, package, version): it works on the copy b.
Pass1Package(bb, s, m, manager, package, version) ==
    LET r == Remove(bb, manager, package, version)
    IN Result(r.b, s, m, r.err)

\* A Manager is a view with a name; it is never equal to a package name,
\* which is a string.
ManagerNePackage(manager, package) == TRUE

RECURSIVE Register(_, _, _, _)
\* The package callback of the managers property over the calls of one manager.
Register(d, manager, calls, acc) ==
    IF calls = <<>> THEN acc
    ELSE LET package == Head(calls).package
         IN Register(d, manager, Tail(calls),
                IF package \in DOMAIN d.pk /\ ManagerNePackage(manager, package)
                THEN Put(acc, package, manager) ELSE acc)

RECURSIVE ManagersWalk(_, _, _, _)
RECURSIVE ManagersRecurse(_, _, _, _)
\* self.walk(package=package) of the managers property, at the given depth.
ManagersWalk(d, managername, acc, depth) ==
    LET table == d.pk[managername]
        acc1 == Register(d, managername, Calls(table), acc)
    IN ManagersRecurse(d, ChildManagers(d, managername, table), acc1, depth)

ManagersRecurse(d, managers, acc, depth) ==
    IF managers = <<>> THEN [managers |-> acc, err |-> ""]
    ELSE IF depth >= RecursionLimit
    THEN [managers |-> acc, err |-> "RuntimeError"]
    ELSE LET r == ManagersWalk(d, Head(managers), acc, depth + 1)
         IN IF r.err # "" THEN r
            ELSE ManagersRecurse(d, Tail(managers), r.managers, depth)

\* hasattr(self, '_managers'): the attribute, once set, has the key 'apt'.
HasManagers(m) == "apt" \in DOMAIN m

\* The managers property: cached in self._managers once computed.
Managers(s, m, depth) ==
    IF HasManagers(m) THEN [self |-> s, managers |-> m, err |-> ""]
    ELSE LET s1 == Packages(s)
             m0 == [x \in {"apt"} |-> None]
         IN IF GetItemRaises(s1, "apt")
            THEN [self |-> s1, managers |-> m0, err |-> "KeyError"]
            ELSE LET s2 == GetItem(s1, "apt")
                     r == ManagersWalk(s2, "apt", m0, depth + 1)
                 IN [self |-> s2, managers |-> r.managers, err |-> r.err]

\* self.managers[package].name, once the lookups have succeeded.
Parent(m, package) == m[package]

Pass2PackageMutant(bb, s, m, package, depth) ==
    LET b1 == Packages(bb)
    IN IF package \notin DOMAIN b1.pk THEN Result(b1, s, m, "")
       ELSE IF 0 # Cardinality(DOMAIN b1.pk[package]) THEN Result(b1, s, m, "")
       ELSE Result([b1 EXCEPT !.pk = Del(b1.pk, package)], s, m, "")

\* Pass 2, package(manager, package, version).
Pass2Package(bb, s, m, package, depth) ==
    LET b1 == Packages(bb)
    IN IF package \notin DOMAIN b1.pk THEN Result(b1, s, m, "")
       ELSE IF 0 # Cardinality(DOMAIN b1.pk[package]) THEN Result(b1, s, m, "")
       ELSE LET b2 == [b1 EXCEPT !.pk = Del(b1.pk, package)]
                r == Managers(s, m, depth)
            IN IF r.err # "" THEN Result(b2, r.self, r.managers, r.err)
               ELSE IF package \notin DOMAIN r.managers
               THEN Result(b2, r.self, r.managers, "KeyError")
               ELSE IF r.managers[package] = None
               THEN Result(b2, r.self, r.managers, "AttributeError")
               ELSE LET name == Parent(r.managers, package)
                    IN IF GetItemRaises(b2, name)
                       THEN Result(b2, r.self, r.managers, "KeyError")
                       ELSE LET b3 == GetItem(b2, name)
                            IN IF package \notin DOMAIN b3.pk[name]
                               THEN Result(b3, r.self, r.managers, "KeyError")
                               ELSE Result([b3 EXCEPT !.pk[name] =
                                               Del(b3.pk[name], package)],
                                           r.self, r.managers, "")

DepsMutant(name) ==
    CASE name = "python3" -> <<"python3">>
      [] OTHER -> <<>>

\* The deps table of pass 3: re.search(pattern, manager.name) and the
\* formatted package names, for the names of the model.
Deps(name) ==
    CASE name = "python3" -> <<"python3", "python3-dev">>
      [] name = "python2.7" -> <<"python2.7", "python2.7-dev">>
      [] name = "ruby1.8" -> <<"ruby1.8-dev">>
      [] name = "rubygems1.8" -> <<"ruby1.8", "ruby1.8-dev">>
      [] OTHER -> <<>>

RECURSIVE AddBackMutant(_, _, _, _)
AddBackMutant(bb, s, m, packages) ==
    IF packages = <<>> THEN Result(bb, s, m, "")
    ELSE LET s1 == Packages(s)
         IN IF GetItemRaises(s1, "apt") THEN Result(bb, s1, m, "KeyError")
            ELSE LET s2 == GetItem(s1, "apt")
                     package == Head(packages)
                 IN IF package \notin DOMAIN s2.pk["apt"]
                    THEN AddBackMutant(bb, s2, m, Tail(packages))
                    ELSE IF GetItemRaises(bb, "apt")
                    THEN Result(bb, s2, m, "KeyError")
                    ELSE AddBackMutant(
                             [GetItem(bb, "apt") EXCEPT
                                 !.pk["apt"] =
                                     Put(@, package,
                                         (IF package \in DOMAIN @
                                          THEN @[package] ELSE <<>>)
                                         \o s2.pk["apt"][package])],
                             s2, m, Tail(packages))

RECURSIVE AddBack(_, _, _, _)
\* for package in packages: copy self's apt entry into b.
AddBack(bb, s, m, packages) ==
    IF packages = <<>> THEN Result(bb, s, m, "")
    ELSE LET s1 == Packages(s)
         IN IF GetItemRaises(s1, "apt") THEN Result(bb, s1, m, "KeyError")
            ELSE LET s2 == GetItem(s1, "apt")
                     package == Head(packages)
                 IN IF package \notin DOMAIN s2.pk["apt"]
                    THEN AddBack(bb, s2, m, Tail(packages))
                    ELSE IF GetItemRaises(bb, "apt")
                    THEN Result(bb, s2, m, "KeyError")
                    ELSE AddBack([GetItem(bb, "apt") EXCEPT
                                     !.pk["apt"] = Put(@, package,
                                                       s2.pk["apt"][package])],
                                 s2, m, Tail(packages))

\* Pass 3, after(manager).
Pass3After(bb, s, m, manager) ==
    LET b1 == Packages(bb)
    IN IF manager \notin DOMAIN b1.pk THEN Result(b1, s, m, "")
       ELSE AddBack(b1, s, m, Deps(manager))

-----------------------------------------------------------------------------
(* The steps of walk and of __sub__.                                       *)

Top == stack[Len(stack)]

SetTop(f) == [stack EXCEPT ![Len(stack)] = f]

Raise(e) == pc' = "error" /\ err' = e

DeepCopyMutant(d) == EmptyDocument

\* copy.deepcopy(self): an equal blueprint that shares nothing with self.
DeepCopy(d) == d

\* b = copy.deepcopy(self)
Sub ==
    /\ pc = "start"
    /\ b' = DeepCopy(self)
    /\ pc' = "pass1"
    /\ UNCHANGED <<self, other, same, _managers, stack, traces, err>>
    /\ UNCHANGED <<args, after, storevars>>

\* other.walk(...): the call with managername='apt', through the before hook.
WalkCall ==
    /\ pc \in Walking
    /\ stack = <<>>
    /\ LET d1 == Packages(other)
           hooks == Hooks(pc)
       IN IF GetItemRaises(d1, "apt")
          THEN /\ other' = d1
               /\ self' = IF same THEN d1 ELSE self
               /\ Raise("KeyError")
               /\ UNCHANGED <<stack, traces>>
          ELSE LET d2 == GetItem(d1, "apt")
               IN /\ other' = d2
                  /\ self' = IF same THEN d2 ELSE self
                  /\ stack' = <<Frame(d2, "apt", hooks)>>
                  /\ traces' = Log(Append(traces, <<>>), hooks,
                                   Event("before", "apt", None, None))
                  /\ UNCHANGED <<pc, err>>
    /\ UNCHANGED <<same, b, _managers, args, after, storevars>>

\* callable(manager, package, version) for the next version of the loop.
WalkPackage ==
    /\ pc \in Walking
    /\ stack # <<>>
    /\ Top.phase = "package"
    /\ LET calls == Calls(Top.table)
           c == calls[Top.i]
           r == CASE pc = "pass1" ->
                       Pass1Package(b, self, _managers, Top.name,
                                    c.package, c.version)
                  [] pc = "pass2" ->
                       Pass2Package(b, self, _managers, c.package, Len(stack))
                  [] OTHER -> Result(b, self, _managers, "")
       IN /\ b' = r.b
          /\ self' = r.self
          /\ other' = IF same THEN r.self ELSE other
          /\ _managers' = r.managers
          /\ traces' = Log(traces, Hooks(pc),
                           Event("package", Top.name, c.package, c.version))
          /\ IF r.err # ""
             THEN Raise(r.err) /\ UNCHANGED stack
             ELSE /\ stack' = SetTop([Top EXCEPT
                                 !.i = @ + 1,
                                 !.phase = IF Top.i + 1 > Len(calls)
                                           THEN "after" ELSE "package"])
                  /\ UNCHANGED <<pc, err>>
    /\ UNCHANGED <<same, args, after, storevars>>

\* The end of the package loop, with the managers it noted, and the after hook.
WalkAfter ==
    /\ pc \in Walking
    /\ stack # <<>>
    /\ Top.phase = "after"
    /\ LET r == IF pc = "pass3"
                THEN Pass3After(b, self, _managers, Top.name)
                ELSE Result(b, self, _managers, "")
       IN /\ b' = r.b
          /\ self' = r.self
          /\ other' = IF same THEN r.self ELSE other
          /\ _managers' = r.managers
          /\ traces' = Log(traces, Hooks(pc),
                           Event("after", Top.name, None, None))
          /\ IF r.err # ""
             THEN Raise(r.err) /\ UNCHANGED stack
             ELSE /\ stack' = SetTop([Top EXCEPT
                                 !.phase = "recurse",
                                 !.managers = ChildManagers(other, Top.name,
                                                            Top.table)])
                  /\ UNCHANGED <<pc, err>>
    /\ UNCHANGED <<same, args, after, storevars>>

\* self.walk(managername, **kwargs) for the next manager noted.
WalkRecurse ==
    /\ pc \in Walking
    /\ stack # <<>>
    /\ Top.phase = "recurse"
    /\ Top.k <= Len(Top.managers)
    /\ IF Len(stack) >= RecursionLimit
       THEN Raise("RuntimeError") /\ UNCHANGED <<stack, traces>>
       ELSE /\ stack' = Append(SetTop([Top EXCEPT !.k = @ + 1]),
                               Frame(other, Top.managers[Top.k], Hooks(pc)))
            /\ traces' = Log(traces, Hooks(pc),
                             Event("before", Top.managers[Top.k], None, None))
            /\ UNCHANGED <<pc, err>>
    /\ UNCHANGED <<self, other, same, b, _managers, args, after, storevars>>

\* walk returns; the top-level call returns to __sub__, which goes on.
WalkReturn ==
    /\ pc \in Walking
    /\ stack # <<>>
    /\ Top.phase = "recurse"
    /\ Top.k > Len(Top.managers)
    /\ stack' = SubSeq(stack, 1, Len(stack) - 1)
    /\ pc' = IF Len(stack) = 1 THEN AfterWalk(pc) ELSE pc
    /\ after' = IF Len(stack) = 1 /\ pc \in {"pass1", "pass2", "pass3"}
                THEN Append(after, b) ELSE after
    /\ UNCHANGED <<self, other, same, b, _managers, traces, err, args>>
    /\ UNCHANGED storevars

Next == Sub \/ WalkCall \/ WalkPackage \/ WalkAfter \/ WalkRecurse \/ WalkReturn

NextWalk == WalkCall \/ WalkPackage \/ WalkAfter \/ WalkRecurse \/ WalkReturn

-----------------------------------------------------------------------------
(* The documents the model starts from.                                    *)

\* The document with manager keys K, the entries E (pairs manager, package)
\* and the version list f[e] of each entry.
MkDoc(K, E, f, dd) ==
    [keys |-> {"packages"},
     dd |-> dd,
     pk |-> [m \in K |->
               [p \in {e[2] : e \in {x \in E : x[1] = m}} |-> f[<<m, p>>]]]]

\* Every document whose manager keys are among M and whose entries are
\* among the slots S, with at most n entries and version lists from VL, as a
\* plain dict or a defaultdict, and the empty blueprint.
Docs(M, S, n, VL) ==
    {EmptyDocument} \cup
    UNION {UNION {{MkDoc(K, E, f, dd) : f \in [E -> VL], dd \in BOOLEAN} :
                     E \in {X \in SUBSET {e \in S : e[1] \in K} :
                               Cardinality(X) <= n}} :
              K \in SUBSET M}

\* rev_parse returns None for a ref that does not exist.
NoCommit == 0

\* Nothing is serialized.
NoDumps ==
    /\ doc = EmptyDocument
    /\ twin = EmptyDocument
    /\ out = <<>>

\* No repository is used.
NoGit ==
    /\ ref = NoCommit
    /\ reflog = <<>>
    /\ commits = <<>>
    /\ trees = {}
    /\ index = EmptyMap
    /\ procs = <<>>
    /\ cwd = <<>>

NoStore == NoDumps /\ NoGit

InitSub(SelfDocs, OtherDocs) ==
    /\ self \in SelfDocs
    /\ \/ other \in OtherDocs /\ same = FALSE
       \/ other = self /\ same = TRUE
    /\ b = EmptyDocument
    /\ _managers = EmptyMap
    /\ pc = "start"
    /\ stack = <<>>
    /\ traces = <<>>
    /\ err = ""
    /\ args = [self |-> self, other |-> other]
    /\ after = <<>>
    /\ NoStore

InitWalk(WalkDocs) ==
    /\ other \in WalkDocs
    /\ self = other
    /\ same = TRUE
    /\ b = EmptyDocument
    /\ _managers = EmptyMap
    /\ pc = "walk1"
    /\ stack = <<>>
    /\ traces = <<>>
    /\ err = ""
    /\ args = [self |-> self, other |-> other]
    /\ after = <<>>
    /\ NoStore

OneVersion == {<<"1.0">>}

\* Version lists of the walked documents: none, one, two out of order.
WalkLists == {<<>>, <<"1.0">>, <<"7.1", "1.0">>}

Managers3 == {"apt", "gem", "pip"}

Slots3 ==
    {<<"apt", "apt">>, <<"apt", "flask">>, <<"apt", "gem">>, <<"apt", "pip">>,
     <<"gem", "flask">>, <<"gem", "pip">>,
     <<"pip", "flask">>, <<"pip", "gem">>, <<"pip", "pip">>}

Init ==
    InitSub(Docs(Managers3, Slots3, MaxEntries, OneVersion),
            Docs(Managers3, Slots3, MaxOtherEntries, OneVersion))

Spec == Init /\ [][Next]_vars

InitW == InitWalk(Docs(Managers3, Slots3, MaxEntries, WalkLists))

\* A caller walks a document twice with all three hooks set.
SpecWalk == InitW /\ [][NextWalk]_vars

\* Version lists of the documents with a python3 manager.
BootLists == {<<"1.0">>, <<"7.1", "1.0">>}

BootSlots ==
    {<<"apt", "flask">>, <<"apt", "python3">>, <<"apt", "python3-dev">>,
     <<"python3", "flask">>, <<"python3", "gem">>}

InitBoot ==
    InitSub(Docs({"apt", "python3"}, BootSlots, MaxEntries, BootLists),
            Docs({"apt", "python3"}, BootSlots, MaxOtherEntries, BootLists))

\* Subtraction over documents that have a python3 manager.
SpecBoot == InitBoot /\ [][Next]_vars

\* Version lists of the documents whose managers are emptied: none, one.
CleanupLists == {<<>>, <<"1.0">>}

\* A sub-manager with two parents.
ParentSlots ==
    {<<"apt", "gem">>, <<"apt", "pip">>, <<"gem", "flask">>,
     <<"pip", "flask">>, <<"pip", "gem">>}

\* A sub-manager that is a bootstrap dependency of another.
RubySlots ==
    {<<"apt", "ruby1.8">>, <<"apt", "rubygems1.8">>, <<"ruby1.8", "flask">>,
     <<"rubygems1.8", "flask">>}

InitCleanup ==
    \/ InitSub(Docs(Managers3, ParentSlots, MaxEntries, CleanupLists),
               Docs(Managers3, ParentSlots, MaxOtherEntries, CleanupLists))
    \/ InitSub(Docs({"apt", "ruby1.8", "rubygems1.8"}, RubySlots, MaxEntries,
                    CleanupLists),
               Docs({"apt", "ruby1.8", "rubygems1.8"}, RubySlots, MaxEntries,
                    CleanupLists))

\* Subtraction over documents whose sub-managers are emptied: packages
\* without versions, two parents, bootstrap dependencies.
SpecCleanup == InitCleanup /\ [][Next]_vars

\* The version lists of at most n versions, none excepted.
VersionLists(n) == UNION {[1..k -> Versions] : k \in 1..n}

\* The documents with the manager keys K and the entries Fixed, each with one
\* version, to which any of the entries Opt are added with a list from VL.
Fill(K, Fixed, Opt, VL, DD) ==
    UNION {{MkDoc(K, Fixed \cup E,
                  [e \in Fixed \cup E |-> IF e \in E THEN g[e] ELSE <<"1.0">>],
                  dd) : g \in [E -> VL], dd \in DD} :
              E \in SUBSET Opt}

VersionSlots == {<<"apt", "curl">>, <<"pip", "flask">>}

\* Version lists of the left operand: none, and up to MaxVersions versions.
SelfLists == {<<>>} \cup VersionLists(MaxVersions)

\* Version lists of the right operand: none, one version, one repeated, two
\* mixed.
OtherLists ==
    {<<>>, <<"1.0">>, <<"7.1">>, <<"1.0", "1.0">>, <<"7.1", "1.0">>}

InitVersions ==
    InitSub(Fill({"apt", "pip"}, {<<"apt", "pip">>}, VersionSlots,
                 SelfLists, {TRUE})
            \cup Fill({"apt", "pip"}, {<<"apt", "pip">>}, VersionSlots,
                      OtherLists, {FALSE})
            \cup Fill({"apt", "pip"}, {<<"apt", "pip">>, <<"pip", "pip">>},
                      VersionSlots, OtherLists, {FALSE})
            \cup Fill({"apt", "pip"}, {<<"apt", "pip">>}, {<<"pip", "gem">>},
                      OtherLists, {TRUE})
            \cup Fill({"apt"}, {}, {<<"apt", "curl">>}, SelfLists, BOOLEAN),
            Fill({"apt"}, {}, {<<"apt", "curl">>}, OtherLists, {FALSE})
            \cup Fill({"apt", "pip"}, {<<"apt", "pip">>}, VersionSlots,
                      OtherLists, {FALSE})
            \cup Fill({"apt", "gem", "pip"},
                      {<<"apt", "gem">>, <<"apt", "pip">>, <<"gem", "pip">>},
                      VersionSlots, OtherLists, {FALSE})
            \cup Fill({"apt", "gem", "pip"},
                      {<<"apt", "gem">>, <<"apt", "pip">>, <<"gem", "flask">>},
                      {<<"pip", "gem">>}, OtherLists, {FALSE}))

\* Subtraction over documents whose packages have several versions.
SpecVersions == InitVersions /\ [][Next]_vars

-----------------------------------------------------------------------------
(* Serialization.  A blueprint that is serialized has, besides keys, dd    *)
(* and pk, the values under 'arch', 'files' and 'sources'; a field whose   *)
(* key is absent holds None or the empty map.  The text dumps returns is   *)
(* json.dumps(self, indent=2, sort_keys=True): one line per leaf, each     *)
(* with the keys that lead to it, in the order of the sorted keys.         *)

\* dumps calls made in one run
MaxDumps == 2

PathOrder == <<"/etc/hosts", "/etc/motd">>

DirOrder == <<"/usr/local">>

\* The arch property: reading it creates the key when it is missing.
Arch(d) ==
    IF "arch" \in d.keys THEN d
    ELSE [d EXCEPT !.keys = @ \cup {"arch"}, !.arch = None]

\* The files property.
Files(d) ==
    IF "files" \in d.keys THEN d
    ELSE [d EXCEPT !.keys = @ \cup {"files"}, !.files = EmptyMap]

\* The sources property.
Sources(d) ==
    IF "sources" \in d.keys THEN d
    ELSE [d EXCEPT !.keys = @ \cup {"sources"}, !.sources = EmptyMap]

\* del self['arch'] when the value is None.
DelArch(d) ==
    IF "arch" \in d.keys /\ d.arch = None
    THEN [d EXCEPT !.keys = @ \ {"arch"}]
    ELSE d

\* len(self[key])
Size(d, key) ==
    CASE key = "files" -> Cardinality(DOMAIN d.files)
      [] key = "packages" -> Cardinality(DOMAIN d.pk)
      [] key = "sources" -> Cardinality(DOMAIN d.sources)

\* del self[key] when the value is empty.
DelEmpty(d, key) ==
    IF key \in d.keys /\ 0 = Size(d, key)
    THEN [d EXCEPT !.keys = @ \ {key},
                   !.dd = IF key = "packages" THEN TRUE ELSE @]
    ELSE d

RECURSIVE Concat(_)
Concat(ss) == IF ss = <<>> THEN <<>> ELSE Head(ss) \o Concat(Tail(ss))

\* The lines of one package: its versions in recorded order.
PackageLines(m, p, vs) ==
    IF vs = <<>> THEN << <<"packages", m, p, "[]">> >>
    ELSE [i \in 1..Len(vs) |-> <<"packages", m, p, vs[i]>>]

\* The lines of one manager: its packages in sorted order.
ManagerLines(m, table) ==
    IF DOMAIN table = {} THEN << <<"packages", m, "{}">> >>
    ELSE LET ps == Sorted(table)
         IN Concat([i \in 1..Len(ps) |-> PackageLines(m, ps[i], table[ps[i]])])

\* The lines under one top-level key.
KeyLines(d, key) ==
    CASE key \notin d.keys -> <<>>
      [] key = "arch" -> << <<"arch", d.arch>> >>
      [] key = "files" ->
           LET ps == SelectSeq(PathOrder, LAMBDA x : x \in DOMAIN d.files)
           IN IF ps = <<>> THEN << <<"files", "{}">> >>
              ELSE [i \in 1..Len(ps) |->
                       <<"files", ps[i], "content", d.files[ps[i]]>>]
      [] key = "packages" ->
           LET ms == Sorted(d.pk)
           IN IF ms = <<>> THEN << <<"packages", "{}">> >>
              ELSE Concat([i \in 1..Len(ms) |->
                              ManagerLines(ms[i], d.pk[ms[i]])])
      [] key = "sources" ->
           LET ds == SelectSeq(DirOrder, LAMBDA x : x \in DOMAIN d.sources)
           IN IF ds = <<>> THEN << <<"sources", "{}">> >>
              ELSE [i \in 1..Len(ds) |-> <<"sources", ds[i], d.sources[ds[i]]>>]

\* json.dumps(self, indent=2, sort_keys=True)
JsonDumps(d) ==
    KeyLines(d, "arch") \o KeyLines(d, "files")
    \o KeyLines(d, "packages") \o KeyLines(d, "sources")

\* dumps: the blueprint without its superfluous keys, and the text.
Dumps(d) ==
    LET d1 == DelArch(d)
        d2 == DelEmpty(d1, "files")
        d3 == DelEmpty(d2, "packages")
        d4 == DelEmpty(d3, "sources")
    IN [doc |-> d4, text |-> JsonDumps(d4)]

\* The lines of the text under the given keys.
Under(text, prefix) ==
    SelectSeq(text, LAMBDA l : /\ Len(l) > Len(prefix)
                               /\ SubSeq(l, 1, Len(prefix)) = prefix)

\* The keys the text has right under the given keys.
KeysUnder(text, prefix) ==
    LET ls == Under(text, prefix)
    IN {ls[i][Len(prefix) + 1] : i \in DOMAIN ls} \ {"{}"}

\* json.loads(content), made a blueprint: plain dicts and lists.
Loads(text) ==
    [keys |-> KeysUnder(text, <<>>),
     arch |-> IF "arch" \in KeysUnder(text, <<>>)
              THEN Under(text, <<"arch">>)[1][2] ELSE None,
     files |-> [x \in KeysUnder(text, <<"files">>) |->
                  Under(text, <<"files", x, "content">>)[1][4]],
     dd |-> "packages" \notin KeysUnder(text, <<>>),
     pk |-> [m \in KeysUnder(text, <<"packages">>) |->
               [p \in KeysUnder(text, <<"packages", m>>) |->
                   LET ls == SelectSeq(Under(text, <<"packages", m, p>>),
                                       LAMBDA l : l[4] # "[]")
                   IN [i \in 1..Len(ls) |-> ls[i][4]]]],
     sources |-> [x \in KeysUnder(text, <<"sources">>) |->
                    Under(text, <<"sources", x>>)[1][3]]]

\* walk() without callbacks: all it does to the blueprint is to look up
\* self.packages['apt'].
WalkLookup(d) ==
    LET d1 == Packages(d)
    IN IF GetItemRaises(d1, "apt") THEN [doc |-> d1, err |-> "KeyError"]
       ELSE [doc |-> GetItem(d1, "apt"), err |-> ""]

ReadArch ==
    /\ pc = "serialize"
    /\ doc' = Arch(doc)
    /\ UNCHANGED <<self, other, same, b, _managers, pc, stack, traces, err>>
    /\ UNCHANGED <<args, after, twin, out, gitvars>>

ReadFiles ==
    /\ pc = "serialize"
    /\ doc' = Files(doc)
    /\ UNCHANGED <<self, other, same, b, _managers, pc, stack, traces, err>>
    /\ UNCHANGED <<args, after, twin, out, gitvars>>

ReadPackages ==
    /\ pc = "serialize"
    /\ doc' = Packages(doc)
    /\ UNCHANGED <<self, other, same, b, _managers, pc, stack, traces, err>>
    /\ UNCHANGED <<args, after, twin, out, gitvars>>

ReadSources ==
    /\ pc = "serialize"
    /\ doc' = Sources(doc)
    /\ UNCHANGED <<self, other, same, b, _managers, pc, stack, traces, err>>
    /\ UNCHANGED <<args, after, twin, out, gitvars>>

\* doc.walk()
WalkDoc ==
    /\ pc = "serialize"
    /\ LET r == WalkLookup(doc)
       IN /\ doc' = r.doc
          /\ IF r.err # "" THEN Raise(r.err) ELSE UNCHANGED <<pc, err>>
    /\ UNCHANGED <<self, other, same, b, _managers, stack, traces>>
    /\ UNCHANGED <<args, after, twin, out, gitvars>>

\* doc.dumps()
DumpsDoc ==
    /\ pc = "serialize"
    /\ Len(out) < MaxDumps
    /\ doc' = Dumps(doc).doc
    /\ out' = Append(out, Dumps(doc).text)
    /\ UNCHANGED <<self, other, same, b, _managers, pc, stack, traces, err>>
    /\ UNCHANGED <<args, after, twin, gitvars>>

\* The blueprint is loaded again from the text dumps returned last.
LoadsDoc ==
    /\ pc = "serialize"
    /\ out # <<>>
    /\ doc' = Loads(out[Len(out)])
    /\ UNCHANGED <<self, other, same, b, _managers, pc, stack, traces, err>>
    /\ UNCHANGED <<args, after, twin, out, gitvars>>

NextDumps ==
    \/ ReadArch \/ ReadFiles \/ ReadPackages \/ ReadSources
    \/ WalkDoc \/ DumpsDoc \/ LoadsDoc

\* The package tables of the serialized blueprints.
DumpTables ==
    {EmptyMap,
     [m \in {"apt"} |-> EmptyMap],
     [m \in {"apt"} |-> [p \in {"curl"} |-> <<"1.0">>]],
     [m \in {"pip"} |-> [p \in {"flask"} |-> <<"1.0">>]],
     [m \in {"apt", "pip"} |->
        IF m = "apt" THEN [p \in {"pip"} |-> <<"1.0">>]
        ELSE [p \in {"flask"} |-> <<"7.1", "1.0">>]]}

\* Each top-level key is absent, present and null or empty, or present with
\* a value.
DumpDocs ==
    {[keys |-> K, arch |-> a, files |-> f, dd |-> dd, pk |-> t, sources |-> s] :
        K \in SUBSET {"arch", "files", "packages", "sources"},
        a \in {None, "amd64"},
        f \in {EmptyMap, [x \in {"/etc/motd"} |-> "hello"]},
        dd \in BOOLEAN,
        t \in DumpTables,
        s \in {EmptyMap, [x \in {"/usr/local"} |-> "local.tar"]}}

\* A field whose key is absent holds no value.
WellFormed(d) ==
    /\ "arch" \notin d.keys => d.arch = None
    /\ "files" \notin d.keys => d.files = EmptyMap
    /\ "packages" \notin d.keys => d.pk = EmptyMap /\ d.dd
    /\ "sources" \notin d.keys => d.sources = EmptyMap

\* What the blueprint holds, whether a key is absent or null or empty.
Content(d) == [arch |-> d.arch, files |-> d.files, pk |-> d.pk,
               sources |-> d.sources]

InitDumps ==
    /\ doc \in {d \in DumpDocs : WellFormed(d)}
    /\ twin \in {d \in DumpDocs : WellFormed(d) /\ Content(d) = Content(doc)}
    /\ out = <<>>
    /\ NoGit
    /\ pc = "serialize"
    /\ self = EmptyDocument
    /\ other = EmptyDocument
    /\ same = FALSE
    /\ b = EmptyDocument
    /\ _managers = EmptyMap
    /\ stack = <<>>
    /\ traces = <<>>
    /\ err = ""
    /\ args = [self |-> EmptyDocument, other |-> EmptyDocument]
    /\ after = <<>>

\* A caller reads, walks, dumps and loads a blueprint.
SpecDumps == InitDumps /\ [][NextDumps]_vars

-----------------------------------------------------------------------------
(* commit.  Each step of a call is one call of git or one change of a file *)
(* of the current directory; the calls of two processes that commit        *)
(* blueprints of the same name to one repository, from the same directory  *)
(* or from two, interleave between the steps, and with calls of destroy.   *)
(* git works on the index of the repository with the current directory as  *)
(* work tree, and a call of git that writes the index fails while the call *)
(* of another process holds index.lock.  A file is the texts written to    *)
(* it since it was last truncated that still show: the text written last,  *)
(* then what is left of each longer text written before.  A tree is        *)
(* identified by its content; a commit is identified by its tree, parent,  *)
(* message and time, and is numbered by the order in which it was written. *)

\* commit() calls of all processes together
MaxCommits == 3

Procs == {1, 2}

\* destroy() calls that find the branch
MaxDestroys == 1

\* directories commit() is called in
MaxDirs == 2

\* git lists the pathnames of a tree in byte order.
PathnameOrder == <<".gitignore", "blueprint.json", "local.tar">>

\* The content of a file that is not the blueprint's JSON.
Bytes(name) == << << <<name>> >> >>

\* The content of blueprint.json after open(..., 'w'): no bytes.
Truncated == <<>>

\* The value at the path q of the text is a string.
IsString(q) ==
    \/ Len(q) = 1 /\ q[1] = "arch"
    \/ Len(q) = 3 /\ q[1] = "files"
    \/ Len(q) = 2 /\ q[1] = "sources"

\* The value at the path q of the text is a list.
IsList(q) == Len(q) = 3 /\ q[1] = "packages"

RECURSIVE Sum(_)
Sum(ns) == IF ns = <<>> THEN 0 ELSE Head(ns) + Sum(Tail(ns))

\* The keys of a dict of the text, in some order.
RECURSIVE KeySeq(_)
KeySeq(ks) ==
    IF ks = {} THEN <<>>
    ELSE LET k == CHOOSE x \in ks : TRUE IN <<k>> \o KeySeq(ks \ {k})

\* The bytes of n items of the given sizes in a dict or list at the given
\* level, as json.dumps(indent=2) of Python 2 writes them: a bracket, each
\* item on a line of its own indented by two spaces a level, ', ' between
\* two items, and the closing bracket on a line of its own.
Framed(sizes, level) ==
    IF sizes = <<>> THEN 2
    ELSE 1 + (1 + 2 * level) + Sum(sizes)
           + (Len(sizes) - 1) * (2 + 1 + 2 * level)
           + (1 + 2 * (level - 1)) + 1

\* The number of bytes of the value at the path q of the text.
RECURSIVE ValueLen(_, _, _)
ValueLen(text, q, level) ==
    LET ls == Under(text, q)
    IN IF IsString(q) THEN Len(ls[1][Len(q) + 1]) + 2
       ELSE IF IsList(q)
       THEN Framed(IF ls[1][Len(q) + 1] = "[]" THEN <<>>
                   ELSE [i \in DOMAIN ls |-> Len(ls[i][Len(q) + 1]) + 2],
                   level)
       ELSE LET ks == KeySeq(KeysUnder(text, q))
            IN Framed([i \in DOMAIN ks |->
                          Len(ks[i]) + 2 + 2
                              + ValueLen(text, q \o <<ks[i]>>, level + 1)],
                      level)

\* len(self.dumps()), from the text
ByteLen(text) == ValueLen(text, <<>>, 1)

\* The content of a file after text is written at its start: the text, and
\* what is left of the longer texts that were there.
Overwrite(content, text) ==
    <<text>> \o SelectSeq(content, LAMBDA t : ByteLen(t) > ByteLen(text))

\* The files a directory can hold when commit() is first called in it: the
\* source tarball, or nothing.
NewDirs == {EmptyMap, [f \in {"local.tar"} |-> Bytes(f)]}

\* The directories after a call of commit() begins in directory dir: an
\* earlier one as it is, or a new one with the given files.
Chdir(dirs, dir, files) ==
    IF dir \in DOMAIN dirs THEN dirs ELSE Append(dirs, files)

\* git.rev_parse(refname): the commit of the ref, None when there is none.
GitRevParse(r) == r

\* git.ls_tree(git.tree(commit)): the pathnames of the commit's tree.
GitLsTree(cs, commit) ==
    SelectSeq(PathnameOrder, LAMBDA x : x \in DOMAIN cs[commit].tree)

\* git update-index --remove pathname fails for a file of the work tree
\* that is not in the index.
GitRemoveFails(idx, worktree, pathname) ==
    pathname \in DOMAIN worktree /\ pathname \notin DOMAIN idx

\* git update-index --remove pathname: the entry is removed when the file is
\* missing from the work tree, and updated from the file otherwise.
GitRemove(idx, worktree, pathname) ==
    IF pathname \in DOMAIN worktree
    THEN Put(idx, pathname, worktree[pathname])
    ELSE Del(idx, pathname)

\* git update-index --add pathname fails for a file that is missing from
\* the work tree.
GitAddFails(worktree, pathname) == pathname \notin DOMAIN worktree

\* git update-index --add pathname, for a file of the work tree.
GitAdd(idx, worktree, pathname) == Put(idx, pathname, worktree[pathname])

\* git.write_tree(): the tree of the index.
GitWriteTree(idx) == idx

\* The commits git.commit_tree(tree, message, parent) can find written: with
\* the same message in the same second, a commit of the same tree and
\* parent is the same commit.
GitSameCommits(cs, tree, parent) ==
    {c \in DOMAIN cs : cs[c] = [tree |-> tree, parent |-> parent]}

\* git.commit_tree(tree, message, parent): a new commit object.
GitCommitTree(cs, tree, parent) == Append(cs, [tree |-> tree, parent |-> parent])

\* git update-ref refname commit: the ref is set, whatever it was.
GitUpdateRef(r, commit) == commit

\* git branch -D name: the ref is deleted.
GitBranchDelete(r) == NoCommit

SetProc(p, f) == [procs EXCEPT ![p] = f]

\* git.git raises GitError: the call of commit() ends without a commit.
Abort(p) ==
    SetProc(p, [procs[p] EXCEPT !.pc = "idle", !.todo = <<>>, !.done = @ + 1])

\* The source tarballs the loop of commit() is to add, in its order.
SourceFiles(d) ==
    LET dirs == SelectSeq(DirOrder, LAMBDA x : x \in DOMAIN d.sources)
    IN [i \in 1..Len(dirs) |-> d.sources[dirs[i]]]

\* The number of times the branch was deleted.
Destroyed == Cardinality({i \in DOMAIN reflog : reflog[i] = NoCommit})

\* The number of commit() calls that have ended, with or without a commit,
\* or are running.
Started ==
    Sum([p \in Procs |-> procs[p].done])
        + Cardinality({p \in Procs : procs[p].pc # "idle"})

\* Blueprint.destroy(name), called by any process: the branch is deleted, or
\* KeyError is raised when there is none.
Destroy ==
    /\ pc = "commit"
    /\ IF ref # NoCommit
       THEN /\ Destroyed < MaxDestroys
            /\ ref' = GitBranchDelete(ref)
            /\ reflog' = Append(reflog, ref')
            /\ UNCHANGED err
       ELSE /\ err # "KeyError"
            /\ err' = "KeyError"
            /\ UNCHANGED <<ref, reflog>>
    /\ UNCHANGED <<commits, trees, index, procs, cwd>>
    /\ UNCHANGED <<self, other, same, b, _managers, pc, stack, traces>>
    /\ UNCHANGED <<args, after, doc, twin, out>>

\* The positions of commit() whose next step is a call of git that takes
\* index.lock.
IndexCalls == {"remove", "add", "sources", "gitignore", "write_tree"}

\* The call of git of another process can hold index.lock.
IndexLocked(p) == \E q \in Procs \ {p} : procs[q].pc \in IndexCalls

\* commit() is called in a directory; git.init() and
\* parent = git.rev_parse(refname)
RevParse ==
    /\ pc = "commit"
    /\ \E p \in Procs : \E dir \in 1..MaxDirs : \E files \in NewDirs :
          /\ procs[p].pc = "idle"
          /\ Started < MaxCommits
          /\ dir <= Len(cwd) + 1
          /\ dir \in DOMAIN cwd => files = EmptyMap
          /\ cwd' = Chdir(cwd, dir, files)
          /\ procs' = SetProc(p, [procs[p] EXCEPT
                                     !.pc = IF GitRevParse(ref) # NoCommit
                                            THEN "ls_tree" ELSE "blueprint",
                                     !.parent = GitRevParse(ref),
                                     !.dir = dir])
    /\ UNCHANGED <<ref, reflog, commits, trees, index>>
    /\ UNCHANGED <<self, other, same, b, _managers, pc, stack, traces, err>>
    /\ UNCHANGED <<args, after, doc, twin, out>>

\* git.ls_tree(git.tree(parent)): the pathnames the loop is to remove.
LsTree ==
    /\ pc = "commit"
    /\ \E p \in Procs :
          /\ procs[p].pc = "ls_tree"
          /\ LET todo == GitLsTree(commits, procs[p].parent)
             IN procs' = SetProc(p, [procs[p] EXCEPT
                                        !.pc = IF todo = <<>> THEN "blueprint"
                                               ELSE "remove",
                                        !.todo = todo])
    /\ UNCHANGED <<ref, reflog, commits, trees, index, cwd>>
    /\ UNCHANGED <<self, other, same, b, _managers, pc, stack, traces, err>>
    /\ UNCHANGED <<args, after, doc, twin, out>>

\* One turn of the loop: git update-index --remove for a file of the parent
\* commit; when git fails, GitError ends the call.
ClearIndex ==
    /\ pc = "commit"
    /\ \E p \in Procs : \E locked \in BOOLEAN :
          /\ procs[p].pc = "remove"
          /\ locked => IndexLocked(p)
          /\ LET pathname == Head(procs[p].todo)
                 worktree == cwd[procs[p].dir]
             IN IF locked \/ GitRemoveFails(index, worktree, pathname)
                THEN /\ err' = "GitError"
                     /\ procs' = Abort(p)
                     /\ UNCHANGED index
                ELSE /\ index' = GitRemove(index, worktree, pathname)
                     /\ procs' = SetProc(p, [procs[p] EXCEPT
                                     !.pc = IF Tail(procs[p].todo) = <<>>
                                            THEN "blueprint" ELSE "remove",
                                     !.todo = Tail(@)])
                     /\ UNCHANGED err
    /\ UNCHANGED <<ref, reflog, commits, trees, cwd>>
    /\ UNCHANGED <<self, other, same, b, _managers, pc, stack, traces>>
    /\ UNCHANGED <<args, after, doc, twin, out>>

\* f = open('blueprint.json', 'w'): the file is there and empty.
OpenBlueprint ==
    /\ pc = "commit"
    /\ \E p \in Procs :
          /\ procs[p].pc = "blueprint"
          /\ cwd' = [cwd EXCEPT ![procs[p].dir] =
                         Put(@, "blueprint.json", Truncated)]
          /\ procs' = SetProc(p, [procs[p] EXCEPT !.pc = "write"])
    /\ UNCHANGED <<ref, reflog, commits, trees, index>>
    /\ UNCHANGED <<self, other, same, b, _managers, pc, stack, traces, err>>
    /\ UNCHANGED <<args, after, doc, twin, out>>

\* f.write(self.dumps()) and f.close(): the text is written at the start of
\* the file, over what another process wrote there since the open.
WriteBlueprint ==
    /\ pc = "commit"
    /\ \E p \in Procs :
          /\ procs[p].pc = "write"
          /\ LET r == Dumps(procs[p].doc)
             IN /\ cwd' = [cwd EXCEPT ![procs[p].dir] =
                               Put(@, "blueprint.json",
                                   Overwrite(@["blueprint.json"], r.text))]
                /\ procs' = SetProc(p, [procs[p] EXCEPT !.pc = "add",
                                                        !.doc = r.doc])
    /\ UNCHANGED <<ref, reflog, commits, trees, index>>
    /\ UNCHANGED <<self, other, same, b, _managers, pc, stack, traces, err>>
    /\ UNCHANGED <<args, after, doc, twin, out>>

\* git update-index --add for blueprint.json as it is in the directory, and
\* the sources property is read for the loop that follows; when git fails,
\* GitError ends the call.
AddBlueprint ==
    /\ pc = "commit"
    /\ \E p \in Procs : \E locked \in BOOLEAN :
          /\ procs[p].pc = "add"
          /\ locked => IndexLocked(p)
          /\ LET d == Sources(procs[p].doc)
                 worktree == cwd[procs[p].dir]
             IN IF locked \/ GitAddFails(worktree, "blueprint.json")
                THEN /\ err' = "GitError"
                     /\ procs' = Abort(p)
                     /\ UNCHANGED index
                ELSE /\ index' = GitAdd(index, worktree, "blueprint.json")
                     /\ procs' = SetProc(p, [procs[p] EXCEPT
                                           !.pc = IF SourceFiles(d) = <<>>
                                                  THEN "ignore" ELSE "sources",
                                           !.doc = d,
                                           !.todo = SourceFiles(d)])
                     /\ UNCHANGED err
    /\ UNCHANGED <<ref, reflog, commits, trees, cwd>>
    /\ UNCHANGED <<self, other, same, b, _managers, pc, stack, traces>>
    /\ UNCHANGED <<args, after, doc, twin, out>>

\* One turn of the loop: git update-index --add for a source tarball; when
\* git fails, as it does for a tarball that is not in the directory,
\* GitError ends the call.
AddSource ==
    /\ pc = "commit"
    /\ \E p \in Procs : \E locked \in BOOLEAN :
          /\ procs[p].pc = "sources"
          /\ locked => IndexLocked(p)
          /\ LET filename == Head(procs[p].todo)
                 worktree == cwd[procs[p].dir]
             IN IF locked \/ GitAddFails(worktree, filename)
                THEN /\ err' = "GitError"
                     /\ procs' = Abort(p)
                     /\ UNCHANGED index
                ELSE /\ index' = GitAdd(index, worktree, filename)
                     /\ procs' = SetProc(p, [procs[p] EXCEPT
                                     !.pc = IF Tail(procs[p].todo) = <<>>
                                            THEN "ignore" ELSE "sources",
                                     !.todo = Tail(@)])
                     /\ UNCHANGED err
    /\ UNCHANGED <<ref, reflog, commits, trees, cwd>>
    /\ UNCHANGED <<self, other, same, b, _managers, pc, stack, traces>>
    /\ UNCHANGED <<args, after, doc, twin, out>>

\* os.link(~/.blueprintignore, '.gitignore'): the file is made, or OSError is
\* raised, as it is when .gitignore is there already, and nothing is added.
LinkIgnore ==
    /\ pc = "commit"
    /\ \E p \in Procs : \E linked \in BOOLEAN :
          /\ procs[p].pc = "ignore"
          /\ linked => ".gitignore" \notin DOMAIN cwd[procs[p].dir]
          /\ cwd' = IF linked
                    THEN [cwd EXCEPT ![procs[p].dir] =
                              Put(@, ".gitignore", Bytes(".blueprintignore"))]
                    ELSE cwd
          /\ procs' = SetProc(p, [procs[p] EXCEPT
                                     !.pc = IF linked THEN "gitignore"
                                            ELSE "write_tree"])
    /\ UNCHANGED <<ref, reflog, commits, trees, index>>
    /\ UNCHANGED <<self, other, same, b, _managers, pc, stack, traces, err>>
    /\ UNCHANGED <<args, after, doc, twin, out>>

\* git update-index --add for .gitignore; when git fails, GitError, which the
\* except clause for OSError does not catch, ends the call.
AddIgnore ==
    /\ pc = "commit"
    /\ \E p \in Procs : \E locked \in BOOLEAN :
          /\ procs[p].pc = "gitignore"
          /\ locked => IndexLocked(p)
          /\ LET worktree == cwd[procs[p].dir]
             IN IF locked \/ GitAddFails(worktree, ".gitignore")
                THEN /\ err' = "GitError"
                     /\ procs' = Abort(p)
                     /\ UNCHANGED index
                ELSE /\ index' = GitAdd(index, worktree, ".gitignore")
                     /\ procs' = SetProc(p, [procs[p] EXCEPT
                                                !.pc = "write_tree"])
                     /\ UNCHANGED err
    /\ UNCHANGED <<ref, reflog, commits, trees, cwd>>
    /\ UNCHANGED <<self, other, same, b, _managers, pc, stack, traces>>
    /\ UNCHANGED <<args, after, doc, twin, out>>

\* tree = git.write_tree(); when git fails, GitError ends the call.
WriteTree ==
    /\ pc = "commit"
    /\ \E p \in Procs : \E locked \in BOOLEAN :
          /\ procs[p].pc = "write_tree"
          /\ locked => IndexLocked(p)
          /\ IF locked
             THEN /\ err' = "GitError"
                  /\ procs' = Abort(p)
                  /\ UNCHANGED trees
             ELSE /\ trees' = trees \cup {GitWriteTree(index)}
                  /\ procs' = SetProc(p, [procs[p] EXCEPT
                                             !.pc = "commit_tree",
                                             !.tree = GitWriteTree(index)])
                  /\ UNCHANGED err
    /\ UNCHANGED <<ref, reflog, commits, index, cwd>>
    /\ UNCHANGED <<self, other, same, b, _managers, pc, stack, traces>>
    /\ UNCHANGED <<args, after, doc, twin, out>>

\* self._commit = git.commit_tree(tree, message, parent): a new commit, or
\* the commit of the same content when one was written in the same second.
CommitTree ==
    /\ pc = "commit"
    /\ \E p \in Procs :
          \E c \in GitSameCommits(commits, procs[p].tree, procs[p].parent)
                      \cup {Len(commits) + 1} :
             /\ procs[p].pc = "commit_tree"
             /\ commits' = IF c \in DOMAIN commits
                           THEN commits
                           ELSE GitCommitTree(commits, procs[p].tree,
                                              procs[p].parent)
             /\ procs' = SetProc(p, [procs[p] EXCEPT !.pc = "update_ref",
                                                     !.commit = c])
    /\ UNCHANGED <<ref, reflog, trees, index, cwd>>
    /\ UNCHANGED <<self, other, same, b, _managers, pc, stack, traces, err>>
    /\ UNCHANGED <<args, after, doc, twin, out>>

\* git update-ref refname self._commit
UpdateRef ==
    /\ pc = "commit"
    /\ \E p \in Procs :
          /\ procs[p].pc = "update_ref"
          /\ ref' = GitUpdateRef(ref, procs[p].commit)
          /\ reflog' = Append(reflog, ref')
          /\ procs' = SetProc(p, [procs[p] EXCEPT !.pc = "idle",
                                                  !.done = @ + 1])
    /\ UNCHANGED <<commits, trees, index, cwd>>
    /\ UNCHANGED <<self, other, same, b, _managers, pc, stack, traces, err>>
    /\ UNCHANGED <<args, after, doc, twin, out>>

NextCommit ==
    \/ RevParse \/ LsTree \/ ClearIndex \/ OpenBlueprint \/ WriteBlueprint
    \/ AddBlueprint \/ AddSource \/ LinkIgnore \/ AddIgnore \/ WriteTree
    \/ CommitTree \/ UpdateRef \/ Destroy

\* The blueprints the processes commit.
CommitDocs ==
    <<[keys |-> {}, arch |-> None, files |-> EmptyMap, dd |-> TRUE,
       pk |-> EmptyMap, sources |-> EmptyMap],
      [keys |-> {"arch", "packages"}, arch |-> "amd64", files |-> EmptyMap,
       dd |-> TRUE, pk |-> [m \in {"apt"} |-> [p \in {"curl"} |-> <<"7.1">>]],
       sources |-> EmptyMap],
      [keys |-> {"sources"}, arch |-> None, files |-> EmptyMap, dd |-> TRUE,
       pk |-> EmptyMap, sources |-> [x \in {"/usr/local"} |-> "local.tar"]]>>

\* No call of commit() was made; the processes are alike, so the blueprint
\* of the first is not after the blueprint of the second.
InitCommit ==
    /\ \E i, j \in DOMAIN CommitDocs :
          /\ i <= j
          /\ procs = [p \in Procs |->
                         [pc |-> "idle", parent |-> NoCommit,
                          tree |-> EmptyMap, commit |-> NoCommit,
                          doc |-> CommitDocs[IF p = 1 THEN i ELSE j],
                          done |-> 0, todo |-> <<>>, dir |-> 0]]
    /\ cwd = <<>>
    /\ ref = NoCommit
    /\ reflog = <<>>
    /\ commits = <<>>
    /\ trees = {}
    /\ index = EmptyMap
    /\ NoDumps
    /\ pc = "commit"
    /\ self = EmptyDocument
    /\ other = EmptyDocument
    /\ same = FALSE
    /\ b = EmptyDocument
    /\ _managers = EmptyMap
    /\ stack = <<>>
    /\ traces = <<>>
    /\ err = ""
    /\ args = [self |-> EmptyDocument, other |-> EmptyDocument]
    /\ after = <<>>

\* Two processes commit blueprints of one name to the same repository.
SpecCommit == InitCommit /\ [][NextCommit]_vars

-----------------------------------------------------------------------------
(* The manager hierarchy of a document, as the claims speak of it.         *)

\* c is a child manager of m: a package of m, other than m, that is a key.
Child(d, m, c) ==
    /\ m \in DOMAIN d.pk
    /\ c \in DOMAIN d.pk[m]
    /\ c # m
    /\ c \in DOMAIN d.pk

RECURSIVE Below(_, _)
\* The managers reachable from the managers in S through Child.
Below(d, S) ==
    LET T == S \cup {c \in DOMAIN d.pk : \E m \in S : Child(d, m, c)}
    IN IF T = S THEN S ELSE Below(d, T)

Acyclic(d) ==
    \A m \in DOMAIN d.pk :
        m \notin Below(d, {c \in DOMAIN d.pk : Child(d, m, c)})

Rank(n) == CHOOSE i \in 1..Len(NameOrder) : NameOrder[i] = n

RECURSIVE Ascending(_)
\* The names of S in ascending order.
Ascending(S) ==
    IF S = {} THEN <<>>
    ELSE LET x == CHOOSE x \in S : \A y \in S : Rank(x) <= Rank(y)
         IN <<x>> \o Ascending(S \ {x})

RECURSIVE PackageEvents(_, _, _)
PackageEvents(d, m, ps) ==
    IF ps = <<>> THEN <<>>
    ELSE [i \in 1..Len(d.pk[m][Head(ps)]) |->
             Event("package", m, Head(ps), d.pk[m][Head(ps)][i])]
         \o PackageEvents(d, m, Tail(ps))

RECURSIVE WalkSeq(_, _)
RECURSIVE WalkAll(_, _)
\* The hook invocations of walk(m) as the ordering claim lists them.
WalkSeq(d, m) ==
    <<Event("before", m, None, None)>>
    \o PackageEvents(d, m, Ascending(DOMAIN d.pk[m]))
    \o <<Event("after", m, None, None)>>
    \o WalkAll(d, Ascending({c \in DOMAIN d.pk : Child(d, m, c)}))

WalkAll(d, cs) ==
    IF cs = <<>> THEN <<>> ELSE WalkSeq(d, Head(cs)) \o WalkAll(d, Tail(cs))

RECURSIVE NumPaths(_, _, _)
\* The number of chains of parent listings that lead from m to n.
NumPaths(d, m, n) ==
    LET cs == {c \in DOMAIN d.pk : Child(d, m, c)}
        sum[S \in SUBSET cs] ==
            IF S = {} THEN 0
            ELSE LET c == CHOOSE c \in S : TRUE
                 IN NumPaths(d, c, n) + sum[S \ {c}]
    IN (IF m = n THEN 1 ELSE 0) + sum[cs]

Count(trace, hook, m) ==
    Cardinality({i \in DOMAIN trace :
                    trace[i].hook = hook /\ trace[i].manager = m})

FirstWalkReturned == pc \in {"walk2", "walked"}

-----------------------------------------------------------------------------
(* C5.  As stated: once walk has returned, the before hook and the after   *)
(* hook have each been invoked exactly once for every manager name         *)
(* reachable from the default manager, however many parents list it.       *)
WalkVisitsOnce ==
    FirstWalkReturned =>
        \A n \in Below(other, {"apt"}) :
            Count(traces[1], "before", n) = 1 /\ Count(traces[1], "after", n) = 1

(* C5, amended: once walk has returned, the before hook and the after hook *)
(* have each been invoked for a manager name once per chain of parent      *)
(* listings that leads from the default manager to that name, and for no   *)
(* other name.                                                             *)
WalkVisitsOncePerPath ==
    FirstWalkReturned =>
        \A n \in Names :
            LET k == IF n \in Below(other, {"apt"})
                     THEN NumPaths(other, "apt", n) ELSE 0
            IN Count(traces[1], "before", n) = k
               /\ Count(traces[1], "after", n) = k

WalkVisitsWitness ==
    /\ pc = "walked"
    /\ \E n \in Below(other, {"apt"}) :
          /\ NumPaths(other, "apt", n) = 2
          /\ Count(traces[1], "before", n) = 2
          /\ Count(traces[1], "after", n) = 2

(* C6.  walk returns for every document, and its recursion is never deeper *)
(* than the number of manager names that are keys of document.packages.    *)
WalkTerminates ==
    /\ Len(stack) <= Cardinality(DOMAIN other.pk)
    /\ err # "RuntimeError"

(* C7.  For a document with an acyclic hierarchy the hooks are invoked in  *)
(* the order before(m), the packages of m ascending by name with their     *)
(* versions in recorded order, after(m), then the whole walk of each child *)
(* manager ascending by name; a second walk yields the same sequence.      *)
WalkOrder ==
    /\ (FirstWalkReturned /\ Acyclic(other)) => traces[1] = WalkSeq(other, "apt")
    /\ (pc = "walked" /\ Acyclic(other)) => traces[2] = traces[1]

WalkOrderWitness ==
    /\ pc = "walked"
    /\ Acyclic(other)
    /\ traces[2] = traces[1]
    /\ \E i \in DOMAIN traces[1] :
          /\ traces[1][i].hook = "package"
          /\ traces[1][i].manager # "apt"
          /\ traces[1][i].version = "7.1"
    /\ Cardinality({c \in DOMAIN other.pk : Child(other, "apt", c)}) = 2

-----------------------------------------------------------------------------
(* Subtraction: what the claims compare.                                   *)

Self0 == args.self

Other0 == args.other

\* The table of manager m in d has the package p with the versions vs.
Has(d, m, p, vs) ==
    /\ m \in DOMAIN d.pk
    /\ p \in DOMAIN d.pk[m]
    /\ d.pk[m][p] = vs

Lists(d, m, p) == m \in DOMAIN d.pk /\ p \in DOMAIN d.pk[m]

\* other holds every package of self's manager m with every version of it.
Shares(s, o, m) ==
    /\ m \in DOMAIN o.pk
    /\ \A p \in DOMAIN s.pk[m] :
          /\ p \in DOMAIN o.pk[m]
          /\ \A i \in DOMAIN s.pk[m][p] :
                \E j \in DOMAIN o.pk[m][p] : o.pk[m][p][j] = s.pk[m][p][i]

BootPrecondition ==
    /\ Lists(Self0, "apt", "python3")
    /\ Lists(Self0, "apt", "python3-dev")
    /\ "python3" \in DOMAIN Self0.pk
    /\ DOMAIN Self0.pk["python3"] # {}

BootRestored ==
    /\ Has(b, "apt", "python3", Self0.pk["apt"]["python3"])
    /\ Has(b, "apt", "python3-dev", Self0.pk["apt"]["python3-dev"])

(* C1.  As stated: when other shares the whole python3 manager of self and *)
(* passes 1 and 2 remove that manager, the result still has python3 and    *)
(* python3-dev under apt, with the version lists of self.                  *)
BootstrapRestoration ==
    (/\ pc = "done"
     /\ BootPrecondition
     /\ Shares(Self0, Other0, "python3")
     /\ "python3" \notin DOMAIN after[2].pk)
        => BootRestored

(* C1, amended: when the walk of other visits the python3 manager and      *)
(* python3 is still a key of the result's packages, the result has python3 *)
(* and python3-dev under apt, with the version lists of self.              *)
BootstrapRestorationKept ==
    (/\ pc = "done"
     /\ BootPrecondition
     /\ "python3" \in Below(other, {"apt"})
     /\ "python3" \in DOMAIN b.pk)
        => BootRestored

\* python3-dev was taken out by pass 1 and is back in the result.
BootstrapWitness ==
    /\ pc = "done"
    /\ BootPrecondition
    /\ "python3" \in Below(other, {"apt"})
    /\ "python3" \in DOMAIN b.pk
    /\ ~Lists(after[1], "apt", "python3-dev")
    /\ BootRestored

\* s is a sub-manager of d: a manager key, not the default one, that some
\* manager of d records as a package.
SubManager(d, s) ==
    /\ s # "apt"
    /\ s \in DOMAIN d.pk
    /\ \E m \in DOMAIN d.pk : s \in DOMAIN d.pk[m]

\* Pass 1 removed every package of manager s.
Emptied(s) ==
    /\ DOMAIN Self0.pk[s] # {}
    /\ s \in DOMAIN after[1].pk
    /\ DOMAIN after[1].pk[s] = {}

\* The managers of d that record s as a package.
Listers(d, s) == {m \in DOMAIN d.pk : s \in DOMAIN d.pk[m]}

Pass2Visits(s) ==
    \E m \in Below(other, {"apt"}) :
        /\ Lists(other, m, s)
        /\ other.pk[m][s] # <<>>

\* The parent self.managers records for s.
Recorded(s) == Parent(_managers, s)

\* Pass 3 puts s back under the default manager: self has it there, and it
\* is a bootstrap dependency of a manager that the walk of other visits and
\* that pass 2 left a key.
PutBack(s) ==
    /\ Lists(Self0, "apt", s)
    /\ \E manager \in Below(other, {"apt"}) :
          /\ manager \in DOMAIN after[2].pk
          /\ \E i \in DOMAIN Deps(manager) : Deps(manager)[i] = s

AllReachable(d) == DOMAIN d.pk \subseteq Below(d, {"apt"})

\* No manager of d has an entry named after itself.
NoOwnEntry(d) == \A m \in DOMAIN d.pk : m \notin DOMAIN d.pk[m]

(* C3.  For a document d without a python, ruby or rubygems manager,       *)
(* d - d leaves every manager of d that is still a key with an empty       *)
(* table.  Stated for the documents whose managers are all reached by the  *)
(* walk and have no entry named after themselves.                          *)
SelfCancellation ==
    (/\ pc = "done"
     /\ same
     /\ \A m \in DOMAIN Self0.pk : Deps(m) = <<>>
     /\ AllReachable(Self0)
     /\ NoOwnEntry(Self0))
        => \A m \in DOMAIN Self0.pk :
               m \in DOMAIN b.pk => DOMAIN b.pk[m] = {}

\* An empty document: no packages at all.
IsEmpty(d) == DOMAIN d.pk = {}

(* C4.  As stated: d minus an empty document is d, with the same top-level *)
(* keys, manager keys, package keys and version lists.                     *)
SubtractNothing ==
    (pc = "done" /\ IsEmpty(Other0)) => (b.keys = Self0.keys /\ b.pk = Self0.pk)

(* C4, amended: d minus an empty document has the manager keys, package    *)
(* keys and version lists of d, and the top-level keys of d with           *)
(* 'packages' added when d has none.                                       *)
SubtractNothingContent ==
    (pc = "done" /\ IsEmpty(Other0))
        => /\ b.pk = Self0.pk
           /\ b.keys = Self0.keys \cup {"packages"}

SubtractNothingWitness ==
    /\ pc = "done"
    /\ IsEmpty(Other0)
    /\ b.pk = Self0.pk
    /\ Cardinality({m \in DOMAIN b.pk : DOMAIN b.pk[m] # {}}) >= 2

(* C8.  As stated: no step of the subtraction changes self or other.       *)
InputsUntouched == [][self' = self /\ other' = other]_vars

\* d2 is d1 but for a 'packages' key or an 'apt' table created empty.
SameContent(d1, d2) ==
    /\ d1.keys \subseteq d2.keys
    /\ d2.keys \ d1.keys \subseteq {"packages"}
    /\ DOMAIN d1.pk \subseteq DOMAIN d2.pk
    /\ DOMAIN d2.pk \ DOMAIN d1.pk \subseteq {"apt"}
    /\ \A m \in DOMAIN d2.pk :
          d2.pk[m] = IF m \in DOMAIN d1.pk THEN d1.pk[m] ELSE EmptyMap

(* C8, amended: the subtraction changes no manager table, package or       *)
(* version list of self or other; all it may do to them is create a        *)
(* missing 'packages' key and a missing table of the default manager, both *)
(* empty.                                                                  *)
InputsKeepContent ==
    pc # "start" => SameContent(Self0, self) /\ SameContent(Other0, other)

\* Pass 1 has removed a package from the copy and self still has it.
InputsWitness ==
    /\ pc = "done"
    /\ self = Self0
    /\ \E m \in DOMAIN self.pk :
          \E p \in DOMAIN self.pk[m] : ~Lists(after[1], m, p)

(* C9.  Subtracting documents with acyclic hierarchies never ends in an    *)
(* error.  Stated for the documents that have the default manager's table. *)
SubtractNeverRaises ==
    (/\ Acyclic(Self0)
     /\ Acyclic(Other0)
     /\ "apt" \in DOMAIN Self0.pk
     /\ "apt" \in DOMAIN Other0.pk)
        => pc # "error"

\* The number of times version v occurs in the list vs.
Occurs(vs, v) == Cardinality({i \in DOMAIN vs : vs[i] = v})

\* The list vs without the first n[v] occurrences of each version v.
Without(vs, n) ==
    LET keep == {i \in DOMAIN vs :
                    Cardinality({j \in 1..i : vs[j] = vs[i]}) > n[vs[i]]}
        at[k \in 1..Cardinality(keep)] ==
            CHOOSE i \in keep : Cardinality({j \in keep : j <= i}) = k
    IN [k \in 1..Cardinality(keep) |-> vs[at[k]]]

OtherList(m, p) == IF Lists(other, m, p) THEN other.pk[m][p] ELSE <<>>

\* What pass 1 is to leave of package p of manager m, when each occurrence
\* of a version in other removes `times` occurrences of it: a package that
\* other has no version of keeps its list, an empty one too.
Pass1Leaves(m, p, times) ==
    LET left == Without(Self0.pk[m][p],
                        [v \in Versions |-> times * Occurs(OtherList(m, p), v)])
    IN IF OtherList(m, p) = <<>> THEN Has(after[1], m, p, Self0.pk[m][p])
       ELSE IF left = <<>> THEN ~Lists(after[1], m, p)
       ELSE Has(after[1], m, p, left)

Pass1Done == Len(after) >= 1

\* The managers and packages pass 1 is to remove versions from.
Pass1Covers(m, p) ==
    /\ m \in Below(other, {"apt"})
    /\ m \in DOMAIN Self0.pk
    /\ m \notin DOMAIN Self0.pk[m]
    /\ p \in DOMAIN Self0.pk[m]
    /\ p \notin DOMAIN Self0.pk

ManagersKept ==
    \A m \in DOMAIN Self0.pk :
        \A p \in DOMAIN Self0.pk[m] :
            p \in DOMAIN Self0.pk => Has(after[1], m, p, Self0.pk[m][p])

\* The operands and the result of the example.
ExampleSelf ==
    [apt |-> [curl |-> <<"7.1">>, pip |-> <<"1.0">>],
     pip |-> [flask |-> <<"1.0">>]]

ExampleOther == [apt |-> [curl |-> <<"7.1">>]]

ExampleResult == [apt |-> [pip |-> <<"1.0">>], pip |-> [flask |-> <<"1.0">>]]

\* The example: the subtraction raises nothing, and pass 1 and the
\* subtraction give the result.
Pass1Example ==
    (Self0.pk = ExampleSelf /\ Other0.pk = ExampleOther /\ ~same) =>
        /\ pc # "error"
        /\ Pass1Done => after[1].pk = ExampleResult
        /\ pc = "done" => b.pk = ExampleResult

(* C10.  As stated: after pass 1 the list of a package that is not a       *)
(* manager, under a visited manager without an entry of its own name, is   *)
(* self's list less one occurrence, the first left, for each occurrence of *)
(* the version in other; packages that are managers are kept; the example  *)
(* gives the result stated.                                                *)
Pass1MultisetDifference ==
    /\ Pass1Done =>
          /\ \A m \in DOMAIN Self0.pk : \A p \in DOMAIN Self0.pk[m] :
                Pass1Covers(m, p) => Pass1Leaves(m, p, 1)
          /\ ManagersKept
    /\ Pass1Example

\* One occurrence removed for each occurrence in other and each visit of the
\* manager, for every package that is not a manager key of self.
Pass1PerVisitOfSelf ==
    Pass1Done =>
        \A m \in DOMAIN Self0.pk : \A p \in DOMAIN Self0.pk[m] :
            Pass1Covers(m, p) => Pass1Leaves(m, p, NumPaths(other, "apt", m))

(* C10, amended: the same, with one occurrence removed for each occurrence *)
(* of the version in other and each visit of the manager by the walk of    *)
(* other, for packages that are manager keys of neither document; a        *)
(* package of which other lists no version under the manager keeps its     *)
(* list; the example gives the result stated.                              *)
Pass1MultisetDifferencePerVisit ==
    /\ Pass1Done =>
          /\ \A m \in DOMAIN Self0.pk : \A p \in DOMAIN Self0.pk[m] :
                (Pass1Covers(m, p) /\ p \notin DOMAIN other.pk)
                    => Pass1Leaves(m, p, NumPaths(other, "apt", m))
          /\ ManagersKept
    /\ Pass1Example

\* A list v, w, v from which pass 1 removed the first v and kept w, v.
Pass1Witness ==
    /\ pc = "done"
    /\ \E m \in Names : \E p \in Names :
          /\ Pass1Covers(m, p)
          /\ p \notin DOMAIN other.pk
          /\ Len(Self0.pk[m][p]) = 3
          /\ Self0.pk[m][p][1] = Self0.pk[m][p][3]
          /\ Self0.pk[m][p][1] # Self0.pk[m][p][2]
          /\ OtherList(m, p) = <<Self0.pk[m][p][1]>>
          /\ NumPaths(other, "apt", m) = 1
          /\ Has(after[1], m, p, <<Self0.pk[m][p][2], Self0.pk[m][p][3]>>)

-----------------------------------------------------------------------------
(* Serialization: what the claims compare.                                 *)

\* The text has no key for a null arch or an empty files, packages or sources.
EncodeOmits ==
    LET top == KeysUnder(Dumps(doc).text, <<>>)
    IN /\ ("arch" \notin doc.keys \/ doc.arch = None) => "arch" \notin top
       /\ ("files" \notin doc.keys \/ doc.files = EmptyMap) => "files" \notin top
       /\ ("packages" \notin doc.keys \/ doc.pk = EmptyMap)
              => "packages" \notin top
       /\ ("sources" \notin doc.keys \/ doc.sources = EmptyMap)
              => "sources" \notin top

\* The blueprint encodes as the one created with the same content does.
EncodeSame == Dumps(doc).text = Dumps(twin).text

\* encode(decode(encode(d))) = encode(d)
EncodeRoundTrip == Dumps(Loads(Dumps(doc).text)).text = Dumps(doc).text

(* C11.  The text omits 'arch' when it is null and 'files', 'packages' and *)
(* 'sources' when they are empty; a blueprint whose properties were read,  *)
(* or that was walked, dumped or loaded since it was created encodes as a  *)
(* blueprint created with the same content, whichever of these keys were   *)
(* absent or null or empty; and encoding the decoded text gives the text.  *)
CanonicalSerialization ==
    /\ EncodeOmits
    /\ EncodeSame
    /\ EncodeRoundTrip

-----------------------------------------------------------------------------
(* commit: what the claims compare.                                        *)

RECURSIVE Ancestors(_)
\* The commits reached from c by following parent links, c included.
Ancestors(c) ==
    IF c = NoCommit THEN {} ELSE {c} \cup Ancestors(commits[c].parent)

\* The branch was never deleted: only commit() calls have set the ref.
NeverDestroyed == \A i \in DOMAIN reflog : reflog[i] # NoCommit

\* The commit and its tree were written before the ref was set to it.
WrittenFirst ==
    \A i \in DOMAIN reflog :
        reflog[i] \in DOMAIN commits /\ commits[reflog[i]].tree \in trees

\* Each new commit the ref was set to has as parent the commit the ref held
\* right before, none for the first.
ParentIsPrevious ==
    \A i \in DOMAIN reflog :
        LET before == IF i = 1 THEN NoCommit ELSE reflog[i - 1]
        IN reflog[i] # before => commits[reflog[i]].parent = before

\* Every commit the ref was set to is reached from the ref.
SnapshotsReachable == \A i \in DOMAIN reflog : reflog[i] \in Ancestors(ref)

(* C12.  In an execution of commit() calls on one blueprint name, whenever *)
(* the ref is set to a new commit, the tree and the commit were written    *)
(* before, the commit's parent is the commit the ref held right before     *)
(* (none when there was no ref), and so every saved snapshot stays         *)
(* reachable from the ref through parent links, also when the commit()     *)
(* calls of two processes interleave.                                      *)
CommitLinearity ==
    NeverDestroyed =>
        /\ WrittenFirst
        /\ ParentIsPrevious
        /\ SnapshotsReachable

-----------------------------------------------------------------------------
(* Subtraction: the result against self.                                   *)

\* Every version occurs in xs at most as often as in ys.
SubMultiset(xs, ys) == \A v \in Versions : Occurs(xs, v) <= Occurs(ys, v)

\* Every (manager, package) pair of d is one of e, with no version more.
Within(d, e) ==
    \A m \in DOMAIN d.pk : \A p \in DOMAIN d.pk[m] :
        Lists(e, m, p) /\ SubMultiset(d.pk[m][p], e.pk[m][p])

\* Every pair of d that c does not have with the same list is a package of
\* the default manager with the list self has for it.
CopiedFromSelf(d, c) ==
    \A m \in DOMAIN d.pk : \A p \in DOMAIN d.pk[m] :
        Has(c, m, p, d.pk[m][p])
        \/ (m = "apt" /\ Has(Self0, "apt", p, d.pk[m][p]))

(* C13.  When the subtraction returns, every (manager, package) pair of    *)
(* the result is a pair of self and its version list is a sub-multiset of  *)
(* the list self has for it: passes 1 and 2 only delete, and pass 3 only   *)
(* copies entries of self's default manager.                               *)
ResultWithinSelf ==
    /\ pc = "done" => Within(b, Self0)
    /\ Len(after) >= 1 => Within(after[1], Self0)
    /\ Len(after) >= 2 => Within(after[2], after[1])
    /\ Len(after) >= 3 => CopiedFromSelf(after[3], after[2])

\* Pass 1 removed a package of the default manager that has two versions,
\* and pass 3 put it back with the list of self.
ResultWithinSelfWitness ==
    /\ pc = "done"
    /\ \E p \in Names :
          /\ Lists(Self0, "apt", p)
          /\ Len(Self0.pk["apt"][p]) = 2
          /\ ~Lists(after[2], "apt", p)
          /\ Has(b, "apt", p, Self0.pk["apt"][p])

====
